---- MODULE Spec2Model ----
(***************************************************************************)
(* brigade-cd: the GitHub webhook gateway (pkg/webhook) and the custom     *)
(* resource state handler (pkg/customresource), as state machines.         *)
(*                                                                         *)
(* Strings that the code splits on ":" (event types, emitted-event         *)
(* patterns) are represented by the sequence strings.Split(s, ":")         *)
(* returns for them: "issue_comment:created" is <<"issue_comment",         *)
(* "created">>.  The representation is a bijection between strings and     *)
(* non-empty sequences of ":"-free segments.                               *)
(***************************************************************************)
EXTENDS Integers, Sequences, FiniteSets, TLC

\* ---------------------------------------------------------------- bounds
\* A new unit of work is accepted only while the store holds at most
\* MaxStore - 2 builds (a delivery records at most two).
MaxStore == 2
\* GitHub hands out installation tokens with serials 1..MaxToken.
MaxToken == 2
\* Longest list of event patterns the filter is configured with.
MaxPatterns == 2
\* How many triggers the store may hold before a resource is no longer requeued.
MaxRuns == 3

VARIABLES
    \* --- process-wide, set at construction
    opts,            \* githubHook.opts (GithubOpts)
    allowedAuthors,  \* githubHook.allowedAuthors
    store,           \* the builds recorded by storage.Store.CreateBuild, in order
    \* --- one webhook delivery (the gin.Context and the handler's locals)
    pc,              \* position of the handler
    request,         \* c.Request: the delivery
    response,        \* every c.JSON write of this delivery, in order
    proj,            \* proj
    action,          \* action
    rev,             \* rev (brigade.Revision)
    payload,         \* payload
    tok,             \* tok returned by installationToken
    calls,           \* the calls this delivery has made, in order
    \* --- the custom resource handler and one HandleState invocation
    handler,         \* the Handler controller.Run built for the mapping
    cpc,             \* position of HandleState
    ss,              \* the caller's *state.State
    s,               \* s (State), as unpacked from ss
    o,               \* o := s.Object, the handler's copy of the object
    cpayload,        \* payload (*Payload)
    cproj,           \* proj
    ret,             \* what HandleState returned
    ccalls           \* the calls this invocation has made, in order

crVars == <<handler, cpc, ss, s, o, cpayload, cproj, ret, ccalls>>

hookVars == <<opts, allowedAuthors, pc, request, response, proj, action,
              rev, payload, tok, calls>>

vars == <<store, hookVars, crVars>>

\* ------------------------------------------------------------ environment

\* The projects the store knows (storage.Store.GetProject), by repo full name.
Projects ==
    [ r \in {"org/app", "org/lib"} |->
        IF r = "org/app"
        THEN [ID |-> "brigade-app", SharedSecret |-> "projsecret"]
        ELSE [ID |-> "brigade-lib", SharedSecret |-> ""] ]

NoProject == [ID |-> "", SharedSecret |-> ""]

Repos == {"org/app", "org/lib", "org/none"}

Actions == {"", "created", "edited", "deleted"}

Assocs == {"OWNER", "NONE"}

\* Installation ids a delivery can carry (0: the body names no installation).
InstIDs == {0, 1}

\* Issue numbers a delivery can carry.
IssueNumbers == {7}

\* A parsed issue_comment body (github.IssueCommentEvent), or bytes that do not parse.
Body(json, act, repo, links, num, assoc, inst) ==
    [json |-> json, action |-> act, repo |-> repo, prLinks |-> links,
     number |-> num, assoc |-> assoc, instID |-> inst, comment |-> "lgtm"]

Garbage == Body(FALSE, "", "", FALSE, 0, "", 0)

Bodies ==
    { Body(TRUE, a, r, l, n, as, i) :
        a \in Actions, r \in Repos, l \in BOOLEAN, n \in IssueNumbers,
        as \in Assocs, i \in InstIDs }

\* SHA1HMAC: the keyed hash of a body, as the "sha1=<hex>" header value.
SHA1HMAC(secretKey, body) == [alg |-> "sha1", key |-> secretKey, msg |-> body]

NoSignature == [alg |-> "", key |-> "", msg |-> Garbage]

\* The signature headers a sender can put on body b: none, the digest under the
\* project's or the default secret, and the digest of the body before it was altered.
Signatures(b) ==
    { NoSignature,
      SHA1HMAC("projsecret", b),
      SHA1HMAC("defsecret", b),
      SHA1HMAC("projsecret", [b EXCEPT !.comment = "original"]) }

Delivery(ev, readable, b, sig) ==
    [event |-> ev, readable |-> readable, body |-> b, signature |-> sig]

\* A well-formed comment body that would be enriched if it were handled.
SampleBody == Body(TRUE, "created", "org/app", TRUE, 7, "OWNER", 1)

Deliveries ==
    UNION { { Delivery(ev, TRUE, b, sig) : ev \in {"ping", "push", ""}, sig \in Signatures(b) } :
            b \in {Garbage, SampleBody} }
    \cup { Delivery("issue_comment", readable, Garbage, sig) :
             readable \in BOOLEAN, sig \in Signatures(Garbage) }
    \cup { Delivery("issue_comment", FALSE, SampleBody, SHA1HMAC("projsecret", SampleBody)) }
    \cup UNION { { Delivery("issue_comment", TRUE, b, sig) : sig \in Signatures(b) } :
                 b \in Bodies }

NoRequest == Delivery("", FALSE, Garbage, NoSignature)

\* A git ref "refs/<space>/...": refs/heads/<name>, or refs/pull/<num>/head.
Ref(space, name, num) == [space |-> space, name |-> name, num |-> num]

\* fmt.Sprintf("refs/pull/%d/head", n)
PullRef(n) == Ref("pull", "head", n)

\* fmt.Sprintf("refs/heads/%s", branch)
HeadsRef(branch) == Ref("heads", branch, 0)

\* the empty string
NoRef == Ref("", "", 0)

\* "refs/heads/master" (github.go line 159)
DefaultRef == HeadsRef("master")

\* brigade.Revision, zero value
NoRev == [Commit |-> "", Ref |-> NoRef]

\* An installation token as GitHub returns it; NoToken is the empty string.
Token(n) == [prefix |-> "ghs", serial |-> n]

NoToken == [prefix |-> "", serial |-> 0]

\* Apps.CreateInstallationToken: the installation asked for, the token returned.
Exchange(installationID, token) == [InstallationID |-> installationID, Token |-> token]

\* itok.GetExpiresAt(): the expiry GitHub returns together with token t;
\* the zero time for no token.
ExpiresAt(t) == [at |-> t.serial]

NoExpiry == [at |-> 0]

\* payload []byte: unset, the raw body, or the marshalled webhook.Payload.
HookPayload(form, token, expires, commit, branch) ==
    [form |-> form, Token |-> token, TokenExpires |-> expires,
     Commit |-> commit, Branch |-> branch]

NoPayload == HookPayload("nil", NoToken, NoExpiry, "", NoRef)

RawPayload == HookPayload("body", NoToken, NoExpiry, "", NoRef)

\* The head SHAs a fetched pull request may have.
HeadSHAs == {"9a1b2c3", "d4e5f60"}

\* github.PullRequest as far as it is read: its number and its head SHA.
PullRequest(number, sha) == [Number |-> number, SHA |-> sha]

\* ----------------------------------------------------------- pure helpers

\* Mutant: the comparison's result is ignored.
validateSignatureAcceptAll(signature, secretKey, body) == TRUE

\* Mutant: the digest is taken over the key alone, not over the body.
validateSignatureKeyOnly(signature, secretKey, body) ==
    signature.alg = "sha1" /\ signature.key = secretKey

\* Mutant: the digest is compared without regard to the key it was made with.
validateSignatureAnyKey(signature, secretKey, body) ==
    signature.alg = "sha1" /\ signature.msg = body

\* validateSignature: nil (TRUE) iff the header equals the digest of the body.
validateSignature(signature, secretKey, body) ==
    SHA1HMAC(secretKey, body) = signature

\* Mutant: any association passes once a list is configured.
isAllowedAuthorNonEmpty(authors, author) == Len(authors) > 0

\* githubHook.isAllowedAuthor
isAllowedAuthor(authors, author) ==
    \E i \in 1..Len(authors) : authors[i] = author

\* Mutant: a pattern other than "*" matches only the whole candidate.
shouldEmitExact(emitted, eventType) ==
    \E i \in 1..Len(emitted) :
       \/ emitted[i] = <<"*">>
       \/ emitted[i] = eventType

\* githubHook.shouldEmit, on the Split form of eventType and of each pattern.
shouldEmit(emitted, eventType) ==
    LET event == eventType[1]
        act == IF Len(eventType) > 1 THEN eventType[2] ELSE ""
    IN \E i \in 1..Len(emitted) :
          \/ emitted[i] = <<"*">>
          \/ emitted[i] = <<event>>
          \/ emitted[i] = <<event, act>>

\* Mutant: the author association is not consulted.
wantsPullRequestAnyAuthor(authors, ice) ==
    ice.action \in {"created", "edited"} /\ ice.prLinks

\* handleIssueComment lines 142-155: whether handleIssueCommentEvent is called.
wantsPullRequest(authors, ice) ==
    /\ ice.action \in {"created", "edited"}
    /\ ice.prLinks
    /\ isAllowedAuthor(authors, ice.assoc)

\* One call made while handling a unit of work, with its argument and whether
\* it succeeded.
Call(op, arg, ok) == [op |-> op, arg |-> arg, ok |-> ok]

\* The calls of a log that have operation op, in order.
CallsOf(log, op) == SelectSeq(log, LAMBDA k : k.op = op)

Called(log, op) == \E i \in 1..Len(log) : log[i].op = op

\* The builds a log's CreateBuild calls stored.
StoredBy(log) == SelectSeq(log, LAMBDA k : k.op = "CreateBuild" /\ k.ok)

Written(code, msg) == [code |-> code, status |-> msg]

\* c.JSON(code, gin.H{"message": msg})
Message(code, msg) == [code |-> code, message |-> msg]

\* brigade.Build
Build(projectID, type, provider, revision, pl) ==
    [ProjectID |-> projectID, Type |-> type, Provider |-> provider,
     Revision |-> revision, Payload |-> pl]

\* --------------------------------------------------------------- webhook

defaultAllowedAuthors == <<"COLLABORATOR", "OWNER", "MEMBER">>

\* The options NewGithubHookHandler can be given.
HookOpts ==
    { [AppID |-> a, DefaultSharedSecret |-> d, EmittedEvents |-> e] :
        a \in {0, 1}, d \in {"", "defsecret"},
        e \in { <<<<"*">>>>, <<<<"issue_comment">>>>,
                 <<<<"issue_comment", "created">>>>, <<>> } }

\* The author lists NewGithubHookHandler can be given.
AuthorLists == { defaultAllowedAuthors, <<"NONE">> }

HookIdle ==
    /\ pc = "idle"
    /\ request = NoRequest
    /\ response = <<>>
    /\ proj = NoProject
    /\ action = ""
    /\ rev = NoRev
    /\ payload = NoPayload
    /\ tok = NoToken
    /\ calls = <<>>

HookInit ==
    /\ opts \in HookOpts
    /\ allowedAuthors \in AuthorLists
    /\ HookIdle

\* Mutant: a ping is handled like an issue comment.
routePingAsComment(event) ==
    IF event \in {"ping", "issue_comment"} THEN "issue_comment" ELSE "default"

\* Mutant: a kind without a handler of its own is handled like an issue comment.
routeDefaultAsComment(event) ==
    IF event = "ping" THEN "ping" ELSE "issue_comment"

\* Handle, lines 70-83: the switch on the X-GitHub-Event header.
route(event) ==
    IF event = "ping" THEN "ping"
    ELSE IF event = "issue_comment" THEN "issue_comment"
    ELSE "default"

\* githubHook.Handle: a delivery arrives and is routed by its X-GitHub-Event header.
Handle(d) ==
    /\ pc = "idle"
    /\ Len(store) + 2 <= MaxStore
    /\ request' = d
    /\ proj' = NoProject
    /\ action' = ""
    /\ rev' = NoRev
    /\ payload' = NoPayload
    /\ tok' = NoToken
    /\ calls' = <<>>
    /\ IF route(d.event) = "ping"
       THEN response' = <<Message(200, "OK")>> /\ pc' = "done"
       ELSE IF route(d.event) = "issue_comment"
       THEN response' = <<>> /\ pc' = "handleIssueComment"
       ELSE response' = <<Message(200, "Ignored")>> /\ pc' = "done"
    /\ UNCHANGED <<crVars, opts, allowedAuthors, store>>

\* handleIssueComment, lines 88-118: read the body and parse it.
ParseWebHook ==
    /\ pc = "handleIssueComment"
    /\ IF ~request.readable \/ ~request.body.json
       THEN /\ response' = Append(response, Written(400, "Malformed body"))
            /\ pc' = "done"
            /\ UNCHANGED action
       ELSE /\ action' = request.body.action
            /\ pc' = "GetProject"
            /\ UNCHANGED response
    /\ UNCHANGED <<crVars, opts, allowedAuthors, store, request, proj, rev, payload, tok, calls>>

\* Mutant: a failed project lookup is logged and the delivery is handled
\* further with the empty project.
GetProjectCarryOn ==
    /\ pc = "GetProject"
    /\ calls' = Append(calls, Call("GetProject", request.body.repo,
                                   request.body.repo \in DOMAIN Projects))
    /\ proj' = IF request.body.repo \in DOMAIN Projects
               THEN Projects[request.body.repo] ELSE NoProject
    /\ pc' = "validateSignature"
    /\ UNCHANGED <<crVars, opts, allowedAuthors, store, request, response, action, rev,
                    payload, tok>>

\* handleIssueComment, lines 120-125: s.store.GetProject(repo).
GetProject ==
    /\ pc = "GetProject"
    /\ calls' = Append(calls, Call("GetProject", request.body.repo,
                                   request.body.repo \in DOMAIN Projects))
    /\ IF request.body.repo \in DOMAIN Projects
       THEN /\ proj' = Projects[request.body.repo]
            /\ pc' = "validateSignature"
            /\ UNCHANGED response
       ELSE /\ response' = Append(response, Written(400, "project not found"))
            /\ pc' = "done"
            /\ UNCHANGED proj
    /\ UNCHANGED <<crVars, opts, allowedAuthors, store, request, action, rev, payload, tok>>

\* Mutant: the default secret is preferred over the project's own.
sharedSecretDefaultFirst(p, cfg) ==
    IF cfg.DefaultSharedSecret # "" THEN cfg.DefaultSharedSecret ELSE p.SharedSecret

\* Mutant: only the project's own secret is used.
sharedSecretProjectOnly(p, cfg) == p.SharedSecret

\* handleIssueComment, lines 127-131: the project's secret, else the default one.
sharedSecret(p, cfg) ==
    IF p.SharedSecret = "" THEN cfg.DefaultSharedSecret ELSE p.SharedSecret

\* handleIssueComment, lines 127-155: resolve the secret, check the signature,
\* and decide whether the event is enriched from its pull request.
ValidateSignature ==
    /\ pc = "validateSignature"
    /\ IF sharedSecret(proj, opts) = ""
       THEN /\ response' = Append(response,
                   Written(500, "No secret is configured for this repo."))
            /\ pc' = "done"
            /\ UNCHANGED calls
       ELSE IF ~validateSignature(request.signature, sharedSecret(proj, opts),
                                  request.body)
       THEN /\ response' = Append(response, Written(403, "malformed signature"))
            /\ calls' = Append(calls, Call("validateSignature", request.signature, FALSE))
            /\ pc' = "done"
       ELSE /\ calls' = Append(calls, Call("validateSignature", request.signature, TRUE))
            /\ pc' = IF wantsPullRequest(allowedAuthors, request.body)
                     THEN "handleIssueCommentEvent" ELSE "build"
            /\ UNCHANGED response
    /\ UNCHANGED <<crVars, opts, allowedAuthors, store, request, proj, action, rev, payload, tok>>

\* handleIssueCommentEvent, lines 180-194: the id check and s.installationToken.
\* Every failure writes 403 and returns (rev, body) to handleIssueComment.
InstallationToken ==
    /\ pc = "handleIssueCommentEvent"
    /\ IF opts.AppID = 0 \/ request.body.instID = 0
       THEN /\ response' = Append(response, Written(403, "Auth Failed"))
            /\ payload' = RawPayload
            /\ pc' = "build"
            /\ UNCHANGED <<tok, calls>>
       ELSE \E t \in {NoToken} \cup {Token(n) : n \in 1..MaxToken} :
               /\ calls' = Append(calls,
                      Call("installationToken", Exchange(request.body.instID, t), t # NoToken))
               /\ IF t = NoToken
                  THEN /\ response' = Append(response, Written(403, "Auth Failed"))
                       /\ payload' = RawPayload
                       /\ pc' = "build"
                       /\ UNCHANGED tok
                  ELSE /\ tok' = t
                       /\ pc' = "getPRFromIssueComment"
                       /\ UNCHANGED <<response, payload>>
    /\ UNCHANGED <<crVars, opts, allowedAuthors, store, request, proj, action, rev>>

\* Mutant: the payload is marshalled without the token and its expiry.
enrichWithoutToken(r, t, pullRequest) ==
    [rev |-> [r EXCEPT !.Commit = pullRequest.SHA, !.Ref = PullRef(pullRequest.Number)],
     payload |-> HookPayload("json", NoToken, NoExpiry, pullRequest.SHA,
                             PullRef(pullRequest.Number))]

\* handleIssueCommentEvent, lines 203-240: the revision and the payload built
\* from the fetched pull request and the token.
enrich(r, t, pullRequest) ==
    [rev |-> [r EXCEPT !.Commit = pullRequest.SHA, !.Ref = PullRef(pullRequest.Number)],
     payload |-> HookPayload("json", t, ExpiresAt(t), pullRequest.SHA,
                             PullRef(pullRequest.Number))]

\* handleIssueCommentEvent, lines 196-240: fetch the pull request of the issue
\* and build the revision and the payload from it.
GetPRFromIssueComment ==
    /\ pc = "getPRFromIssueComment"
    /\ \E pullRequest \in { PullRequest(request.body.number, sha) : sha \in HeadSHAs \cup {""} } :
          /\ calls' = Append(calls, Call("PullRequests.Get", pullRequest, pullRequest.SHA # ""))
          /\ IF pullRequest.SHA # ""
             THEN /\ rev' = enrich(rev, tok, pullRequest).rev
                  /\ payload' = enrich(rev, tok, pullRequest).payload
                  /\ UNCHANGED response
             ELSE /\ response' = Append(response, Written(500,
                         "failed to fetch pull request for corresponding issue comment"))
                  /\ payload' = RawPayload
                  /\ UNCHANGED rev
    /\ pc' = "build"
    /\ UNCHANGED <<crVars, opts, allowedAuthors, store, request, proj, action, tok>>

\* Mutant: a delivery that has already created a build creates no second one.
buildOnce(eventType, r, pl, p, stored) ==
    IF shouldEmit(opts.EmittedEvents, eventType) /\ ~Called(calls, "CreateBuild")
    THEN /\ calls' = calls \o
               << Call("build", eventType, TRUE),
                  Call("CreateBuild", Build(p.ID, eventType, "github", r, pl), stored) >>
         /\ store' = IF stored
                     THEN Append(store, Build(p.ID, eventType, "github", r, pl))
                     ELSE store
    ELSE /\ calls' = Append(calls, Call("build", eventType, FALSE))
         /\ UNCHANGED store

\* githubHook.build: one trigger attempt; CreateBuild only if shouldEmit accepts,
\* and the store may refuse the build (the error is returned and dropped).
build(eventType, r, pl, p, stored) ==
    IF shouldEmit(opts.EmittedEvents, eventType)
    THEN /\ calls' = calls \o
               << Call("build", eventType, TRUE),
                  Call("CreateBuild", Build(p.ID, eventType, "github", r, pl), stored) >>
         /\ store' = IF stored
                     THEN Append(store, Build(p.ID, eventType, "github", r, pl))
                     ELSE store
    ELSE /\ calls' = Append(calls, Call("build", eventType, FALSE))
         /\ UNCHANGED store

\* Mutant: the ref is left as it is.
defaultRefNever(r) == r

\* handleIssueComment, lines 157-160: a revision without ref gets refs/heads/master.
defaultRef(r) == IF r.Ref = NoRef THEN [r EXCEPT !.Ref = DefaultRef] ELSE r

\* handleIssueComment, lines 157-163: default the ref, build the raw event type.
BuildEvent ==
    /\ pc = "build"
    /\ rev' = defaultRef(rev)
    /\ \E stored \in BOOLEAN :
          build(<<request.event>>, rev', payload, proj, stored)
    /\ pc' = "buildAction"
    /\ UNCHANGED <<crVars, opts, allowedAuthors, request, response, proj, action, payload, tok>>

\* handleIssueComment, lines 164-169: the second build for eventType:action,
\* then the 200 response.
BuildEventAction ==
    /\ pc = "buildAction"
    /\ IF action # ""
       THEN \E stored \in BOOLEAN :
               build(<<request.event, action>>, rev, payload, proj, stored)
       ELSE UNCHANGED <<calls, store>>
    /\ response' = Append(response, Written(200, "Complete"))
    /\ pc' = "done"
    /\ UNCHANGED <<crVars, opts, allowedAuthors, request, proj, action, rev, payload, tok>>

\* The handler returns: gin discards the context and the locals go out of scope.
Return ==
    /\ pc = "done"
    /\ pc' = "idle"
    /\ request' = NoRequest
    /\ response' = <<>>
    /\ proj' = NoProject
    /\ action' = ""
    /\ rev' = NoRev
    /\ payload' = NoPayload
    /\ tok' = NoToken
    /\ calls' = <<>>
    /\ UNCHANGED <<crVars, opts, allowedAuthors, store>>

HookNext ==
    \/ \E d \in Deliveries : Handle(d)
    \/ ParseWebHook
    \/ GetProject
    \/ ValidateSignature
    \/ InstallationToken
    \/ GetPRFromIssueComment
    \/ BuildEvent
    \/ BuildEventAction
    \/ Return

\* ------------------------------------------------------- custom resource

\* strings.ToLower, on the kinds in use.
ToLower(str) == IF str = "ReleaseSet" THEN "releaseset" ELSE str

\* strconv.Atoi on the annotation values in use: the number, or an error.
Atoi(str) ==
    IF str = "1" THEN [err |-> FALSE, n |-> 1]
    ELSE IF str = "0" THEN [err |-> FALSE, n |-> 0]
    ELSE IF str = "-1" THEN [err |-> FALSE, n |-> 0 - 1]
    ELSE [err |-> TRUE, n |-> 0]

\* Mutant: the handler's event types are built from the kind as configured.
NewHandlerRawKind(kind, project, appID) ==
    [brigadeProject |-> project,
     eventTypeActionDestroy |-> <<kind, "destroy">>,
     eventTypeActionApply |-> <<kind, "apply">>,
     eventTypeActionPlan |-> <<kind, "plan">>,
     defaultBranch |-> "master",
     appID |-> appID]

\* controller.Run, lines 256-267: the Handler of one mapping.
NewHandler(kind, project, appID) ==
    [brigadeProject |-> project,
     eventTypeActionDestroy |-> <<ToLower(kind), "destroy">>,
     eventTypeActionApply |-> <<ToLower(kind), "apply">>,
     eventTypeActionPlan |-> <<ToLower(kind), "plan">>,
     defaultBranch |-> "master",
     appID |-> appID]

Handlers ==
    { NewHandler("ReleaseSet", p, a) : p \in {"org/app", "org/none"}, a \in {0, 1} }

\* The cd.brigade.sh/* annotations HandleState reads; "" is an absent annotation
\* (the map lookup yields ""). gitRepo is the value as strings.Split(v, "/") returns it.
Annotations(instIDStr, approvedStr, dryRunStr, gitRepo, gitCommitId, gitBranch, pullIdStr) ==
    [instIDStr |-> instIDStr, approvedStr |-> approvedStr, dryRunStr |-> dryRunStr,
     gitRepo |-> gitRepo, gitCommitId |-> gitCommitId, gitBranch |-> gitBranch,
     pullIdStr |-> pullIdStr]

\* Object: kind, metadata (deletion timestamp, annotations) and status.
Object(kind, deleted, ann, phase) ==
    [Kind |-> kind, DeletionTimestamp |-> deleted, Annotations |-> ann,
     Status |-> [Phase |-> phase]]

NoObject == Object("", FALSE, Annotations("", "", "", <<"">>, "", "", ""), "")

Snapshots ==
    { Object("ReleaseSet", d, Annotations(i, a, dr, g, c, b, "3"), ph) :
        d \in BOOLEAN,
        i \in {"", "0", "1", "-1", "abc"},
        a \in {"", "true", "yes", "false"},
        dr \in {"", "true", "no", "false"},
        g \in { <<"">>, <<"org", "app">> },
        c \in {"", "b643d46"},
        b \in {"", "test"},
        ph \in {"", "completed"} }

\* customresource.Payload (the body, the object as-is, is left out).
NoCRPayload ==
    [Type |-> "", Token |-> NoToken, TokenExpires |-> NoExpiry, Commit |-> "", Branch |-> "", Owner |-> "",
     Repo |-> "", Pull |-> "", PullURL |-> <<"", "">>, AppID |-> 0, InstID |-> 0]

\* Mutant: a resource without the approved annotation counts as not approved.
eventTypeActionApprovalRequired(h, obj) ==
    IF obj.DeletionTimestamp
    THEN h.eventTypeActionDestroy
    ELSE IF \/ obj.Annotations.approvedStr = "true"
            \/ (obj.Annotations.approvedStr = "yes"
                  /\ obj.Annotations.dryRunStr \in {"", "no", "false"})
    THEN h.eventTypeActionApply
    ELSE h.eventTypeActionPlan

\* Mutant: the deletion timestamp is looked at only after the annotations.
eventTypeActionDeletionLast(h, obj) ==
    IF \/ obj.Annotations.approvedStr = ""
       \/ obj.Annotations.approvedStr = "true"
       \/ (obj.Annotations.approvedStr = "yes"
             /\ obj.Annotations.dryRunStr \in {"", "no", "false"})
    THEN h.eventTypeActionApply
    ELSE IF obj.DeletionTimestamp
    THEN h.eventTypeActionDestroy
    ELSE h.eventTypeActionPlan

\* HandleState, lines 175-182: the action of the trigger.
eventTypeAction(h, obj) ==
    LET approvedStr == obj.Annotations.approvedStr
        dryRunStr == obj.Annotations.dryRunStr
    IN IF obj.DeletionTimestamp
       THEN h.eventTypeActionDestroy
       ELSE IF \/ approvedStr = ""
               \/ approvedStr = "true"
               \/ (approvedStr = "yes"
                     /\ (dryRunStr = "" \/ dryRunStr = "no" \/ dryRunStr = "false"))
       THEN h.eventTypeActionApply
       ELSE h.eventTypeActionPlan

CRIdle ==
    /\ cpc = "idle"
    /\ ss = NoObject
    /\ s = NoObject
    /\ o = NoObject
    /\ cpayload = NoCRPayload
    /\ cproj = NoProject
    /\ ret = "none"
    /\ ccalls = <<>>

CRInit ==
    /\ handler \in Handlers
    /\ CRIdle

\* Mutant: the default branch is used whenever no commit is given, whatever
\* the branch annotation says.
payloadBranchDefaultFirst(h, gitCommitId, gitBranch) ==
    IF gitCommitId = "" THEN h.defaultBranch ELSE gitBranch

\* HandleState, lines 107-115: payload.Branch after the commit and the branch
\* annotation have been looked at.
payloadBranch(h, gitCommitId, gitBranch) ==
    IF gitBranch # "" THEN gitBranch
    ELSE IF gitCommitId # "" THEN ""
    ELSE h.defaultBranch

\* HandleState, lines 65-127: unpack the state object, copy the object, and
\* fill the payload from the annotations.
Unpack(snapshot) ==
    /\ ss' = snapshot
    /\ s' = snapshot
    /\ o' = snapshot
    /\ cproj' = NoProject
    /\ ccalls' = <<>>
    /\ LET ann == snapshot.Annotations
           inst == Atoi(ann.instIDStr)
           filled ==
             [NoCRPayload EXCEPT
                !.Type = ToLower(snapshot.Kind),
                !.Owner = ann.gitRepo[1],
                !.Repo = ann.gitRepo[2],
                !.Pull = ann.pullIdStr,
                !.Commit = ann.gitCommitId,
                !.Branch = payloadBranch(handler, ann.gitCommitId, ann.gitBranch),
                !.AppID = handler.appID]
       IN IF Len(ann.gitRepo) < 2
          THEN \* tmp[1]: index out of range
               /\ ret' = "panic"
               /\ cpc' = "done"
               /\ UNCHANGED cpayload
          ELSE IF ann.instIDStr # "" /\ inst.err
          THEN /\ ret' = "failed converting"
               /\ cpc' = "done"
               /\ cpayload' = filled
          ELSE /\ ret' = "none"
               /\ cpc' = "GetProject"
               /\ cpayload' = IF ann.instIDStr # ""
                              THEN [filled EXCEPT !.InstID = inst.n]
                              ELSE filled
    /\ UNCHANGED <<handler, store, hookVars>>

\* The runtime calls HandleState with its state object.
HandleState(snapshot) ==
    /\ cpc = "idle"
    /\ Len(store) + 2 <= MaxStore
    /\ Unpack(snapshot)

\* The runtime calls HandleState again for a resource whose earlier
\* reconciliations have left triggers in the store.
Requeue(snapshot) ==
    /\ cpc = "idle"
    /\ 0 < Len(store)
    /\ Len(store) < MaxRuns
    /\ Unpack(snapshot)

\* Mutant: a failed project lookup is logged and the handler carries on with
\* the empty project.
CRGetProjectCarryOn ==
    /\ cpc = "GetProject"
    /\ ccalls' = Append(ccalls, Call("GetProject", handler.brigadeProject,
                                     handler.brigadeProject \in DOMAIN Projects))
    /\ cproj' = IF handler.brigadeProject \in DOMAIN Projects
                THEN Projects[handler.brigadeProject] ELSE NoProject
    /\ cpc' = IF cpayload.InstID > 0 /\ handler.appID > 0
              THEN "installationToken" ELSE "build"
    /\ UNCHANGED <<handler, store, hookVars, ss, s, o, cpayload, ret>>

\* Mutant: a token is exchanged for any nonzero pair of ids.
wantsTokenNonzero(instID, appID) == instID # 0 /\ appID # 0

\* HandleState, line 137: the condition of the token exchange.
wantsToken(instID, appID) == instID > 0 /\ appID > 0

\* HandleState, lines 129-135: h.store.GetProject(projName).
CRGetProject ==
    /\ cpc = "GetProject"
    /\ ccalls' = Append(ccalls, Call("GetProject", handler.brigadeProject,
                                     handler.brigadeProject \in DOMAIN Projects))
    /\ IF handler.brigadeProject \in DOMAIN Projects
       THEN /\ cproj' = Projects[handler.brigadeProject]
            /\ cpc' = IF wantsToken(cpayload.InstID, handler.appID)
                      THEN "installationToken" ELSE "build"
            /\ UNCHANGED ret
       ELSE /\ ret' = "project not found"
            /\ cpc' = "done"
            /\ UNCHANGED cproj
    /\ UNCHANGED <<handler, store, hookVars, ss, s, o, cpayload>>

\* Mutant: a failed exchange is tried a second time before giving up.
CRInstallationTokenRetry ==
    /\ cpc = "installationToken"
    /\ \E t \in {NoToken} \cup {Token(n) : n \in 1..MaxToken} :
          /\ ccalls' = Append(ccalls,
                 Call("installationToken", Exchange(cpayload.InstID, t), t # NoToken))
          /\ IF t = NoToken
             THEN IF Called(ccalls, "installationToken")
                  THEN /\ ret' = "Failed to negotiate a token"
                       /\ cpc' = "done"
                       /\ UNCHANGED cpayload
                  ELSE UNCHANGED <<ret, cpc, cpayload>>
             ELSE /\ cpayload' = [cpayload EXCEPT !.Token = t,
                                                   !.TokenExpires = ExpiresAt(t)]
                  /\ cpc' = "build"
                  /\ UNCHANGED ret
    /\ UNCHANGED <<handler, store, hookVars, ss, s, o, cproj>>

\* Mutant: a token the webhook handler holds is taken over instead of
\* exchanging one.
CRInstallationTokenShared ==
    /\ cpc = "installationToken"
    /\ IF tok # NoToken
       THEN /\ cpayload' = [cpayload EXCEPT !.Token = tok,
                                             !.TokenExpires = ExpiresAt(tok)]
            /\ cpc' = "build"
            /\ UNCHANGED <<ret, ccalls>>
       ELSE \E t \in {NoToken} \cup {Token(n) : n \in 1..MaxToken} :
               /\ ccalls' = Append(ccalls,
                      Call("installationToken", Exchange(cpayload.InstID, t), t # NoToken))
               /\ IF t = NoToken
                  THEN /\ ret' = "Failed to negotiate a token"
                       /\ cpc' = "done"
                       /\ UNCHANGED cpayload
                  ELSE /\ cpayload' = [cpayload EXCEPT !.Token = t,
                                                        !.TokenExpires = ExpiresAt(t)]
                       /\ cpc' = "build"
                       /\ UNCHANGED ret
    /\ UNCHANGED <<handler, store, hookVars, ss, s, o, cproj>>

\* HandleState, lines 137-144: h.installationToken.
CRInstallationToken ==
    /\ cpc = "installationToken"
    /\ \E t \in {NoToken} \cup {Token(n) : n \in 1..MaxToken} :
          /\ ccalls' = Append(ccalls,
                 Call("installationToken", Exchange(cpayload.InstID, t), t # NoToken))
          /\ IF t = NoToken
             THEN /\ ret' = "Failed to negotiate a token"
                  /\ cpc' = "done"
                  /\ UNCHANGED cpayload
             ELSE /\ cpayload' = [cpayload EXCEPT !.Token = t,
                                                   !.TokenExpires = ExpiresAt(t)]
                  /\ cpc' = "build"
                  /\ UNCHANGED ret
    /\ UNCHANGED <<handler, store, hookVars, ss, s, o, cproj>>

\* Handler.build, lines 200-219: the build of the trigger.
crBuild(eventAction, pl, p) ==
    Build(p.ID, eventAction, "brigade-cd",
          [Commit |-> pl.Commit, Ref |-> HeadsRef(pl.Branch)], pl)

\* state.Pack(&s, ss): the caller's state object takes the content of s (the
\* JSON round trip keeps kind, deletion timestamp, annotations and phase).
Pack(src) == Object(src.Kind, src.DeletionTimestamp, src.Annotations, src.Status.Phase)

\* Mutant: the stored trigger takes the place of what the store held.
CRBuildReplace ==
    /\ cpc = "build"
    /\ cpayload' = [cpayload EXCEPT
                      !.PullURL = <<handler.brigadeProject, o.Annotations.pullIdStr>>]
    /\ \E stored \in BOOLEAN :
          /\ ccalls' = Append(ccalls,
                 Call("CreateBuild",
                      crBuild(eventTypeAction(handler, o), cpayload', cproj), stored))
          /\ IF stored
             THEN /\ store' = <<crBuild(eventTypeAction(handler, o), cpayload', cproj)>>
                  /\ o' = [o EXCEPT !.Status.Phase = "completed"]
                  /\ ss' = Pack(s)
                  /\ ret' = "nil"
             ELSE /\ ret' = "CreateBuild failed"
                  /\ UNCHANGED <<store, o, ss>>
    /\ cpc' = "done"
    /\ UNCHANGED <<handler, hookVars, s, cproj>>

\* Mutant: the phase is set and the state packed whether or not the trigger
\* was stored.
CRBuildPackAlways ==
    /\ cpc = "build"
    /\ cpayload' = [cpayload EXCEPT
                      !.PullURL = <<handler.brigadeProject, o.Annotations.pullIdStr>>]
    /\ o' = [o EXCEPT !.Status.Phase = "completed"]
    /\ ss' = Pack([s EXCEPT !.Status.Phase = "completed"])
    /\ \E stored \in BOOLEAN :
          /\ ccalls' = Append(ccalls,
                 Call("CreateBuild",
                      crBuild(eventTypeAction(handler, o), cpayload', cproj), stored))
          /\ IF stored
             THEN /\ store' = Append(store,
                         crBuild(eventTypeAction(handler, o), cpayload', cproj))
                  /\ ret' = "nil"
             ELSE /\ ret' = "CreateBuild failed"
                  /\ UNCHANGED store
    /\ cpc' = "done"
    /\ UNCHANGED <<handler, hookVars, s, cproj>>

\* Mutant: a snapshot whose phase is already completed is not emitted again.
CRBuildOnce ==
    /\ cpc = "build"
    /\ cpayload' = [cpayload EXCEPT
                      !.PullURL = <<handler.brigadeProject, o.Annotations.pullIdStr>>]
    /\ IF s.Status.Phase = "completed"
       THEN /\ ret' = "nil"
            /\ UNCHANGED <<store, o, ss, ccalls>>
       ELSE \E stored \in BOOLEAN :
               /\ ccalls' = Append(ccalls,
                      Call("CreateBuild",
                           crBuild(eventTypeAction(handler, o), cpayload', cproj), stored))
               /\ IF stored
                  THEN /\ store' = Append(store,
                              crBuild(eventTypeAction(handler, o), cpayload', cproj))
                       /\ o' = [o EXCEPT !.Status.Phase = "completed"]
                       /\ ss' = Pack(s)
                       /\ ret' = "nil"
                  ELSE /\ ret' = "CreateBuild failed"
                       /\ UNCHANGED <<store, o, ss>>
    /\ cpc' = "done"
    /\ UNCHANGED <<handler, hookVars, s, cproj>>

\* HandleState, lines 146-198: choose the action, emit the trigger, mark the
\* copy o completed and pack s into the caller's state.
CRBuild ==
    /\ cpc = "build"
    /\ cpayload' = [cpayload EXCEPT
                      !.PullURL = <<handler.brigadeProject, o.Annotations.pullIdStr>>]
    /\ \E stored \in BOOLEAN :
          /\ ccalls' = Append(ccalls,
                 Call("CreateBuild",
                      crBuild(eventTypeAction(handler, o), cpayload', cproj), stored))
          /\ IF stored
             THEN /\ store' = Append(store,
                         crBuild(eventTypeAction(handler, o), cpayload', cproj))
                  /\ o' = [o EXCEPT !.Status.Phase = "completed"]
                  /\ ss' = Pack(s)
                  /\ ret' = "nil"
             ELSE /\ ret' = "CreateBuild failed"
                  /\ UNCHANGED <<store, o, ss>>
    /\ cpc' = "done"
    /\ UNCHANGED <<handler, hookVars, s, cproj>>

\* HandleState has returned; the runtime takes the state object back.
CRReturn ==
    /\ cpc = "done"
    /\ cpc' = "idle"
    /\ ss' = NoObject
    /\ s' = NoObject
    /\ o' = NoObject
    /\ cpayload' = NoCRPayload
    /\ cproj' = NoProject
    /\ ret' = "none"
    /\ ccalls' = <<>>
    /\ UNCHANGED <<handler, store, hookVars>>

CRNext ==
    \/ \E snapshot \in Snapshots : HandleState(snapshot)
    \/ CRGetProject
    \/ CRInstallationToken
    \/ CRBuild
    \/ CRReturn

\* ------------------------------------------------------- specifications

\* The webhook gateway alone: no resource is reconciled.
InitHook ==
    /\ HookInit
    /\ store = <<>>
    /\ handler = NewHandler("ReleaseSet", "org/app", 1)
    /\ CRIdle

SpecHook == InitHook /\ [][HookNext]_vars

\* The custom resource controller alone: no delivery arrives.
InitCR ==
    /\ CRInit
    /\ store = <<>>
    /\ opts = [AppID |-> 1, DefaultSharedSecret |-> "defsecret",
               EmittedEvents |-> <<<<"*">>>>]
    /\ allowedAuthors = defaultAllowedAuthors
    /\ HookIdle

SpecCR == InitCR /\ [][CRNext]_vars

\* The event filter alone: githubHook.shouldEmit applied to a candidate string
\* under a configured pattern list. Strings are held as strings.Split(v, ":")
\* returns them: "push" is <<"push">>, "push:" is <<"push", "">>, "" is <<"">>.
Patterns ==
    { <<"*">>, <<"push">>, <<"push", "opened">>, <<"push", "">>,
      <<"push", "opened", "extra">>, <<"issue_comment">>,
      <<"issue_comment", "created">>, <<"">> }

\* The pattern lists of opts.EmittedEvents, up to MaxPatterns long.
RECURSIVE PatternLists(_)
PatternLists(n) ==
    IF n = 0 THEN { <<>> }
    ELSE PatternLists(n - 1) \cup
         { Append(l, e) : l \in { k \in PatternLists(n - 1) : Len(k) = n - 1 },
                          e \in Patterns }

\* The candidate strings handed to shouldEmit.
Candidates ==
    { <<"push">>, <<"push", "opened">>, <<"push", "closed">>, <<"push", "">>,
      <<"push", "opened", "extra">>, <<"push", "closed", "extra">>,
      <<"issue_comment">>, <<"issue_comment", "created">>, <<"pull_request">>,
      <<"*">>, <<"">> }

InitFilter ==
    /\ opts \in { [AppID |-> 1, DefaultSharedSecret |-> "defsecret",
                    EmittedEvents |-> l] : l \in PatternLists(MaxPatterns) }
    /\ allowedAuthors = defaultAllowedAuthors
    /\ HookIdle
    /\ store = <<>>
    /\ handler = NewHandler("ReleaseSet", "org/app", 1)
    /\ CRIdle

\* s.shouldEmit(eventType): the call and its result are logged.
ShouldEmit(eventType) ==
    /\ pc = "idle"
    /\ calls' = <<Call("shouldEmit", eventType,
                        shouldEmit(opts.EmittedEvents, eventType))>>
    /\ UNCHANGED <<crVars, opts, allowedAuthors, store, pc, request, response,
                    proj, action, rev, payload, tok>>

FilterNext == \E eventType \in Candidates : ShouldEmit(eventType)

SpecFilter == InitFilter /\ [][FilterNext]_vars

\* validateSignature alone, applied to a header value, a secret and a body.
Secrets == {"", "projsecret", "defsecret"}

SignedBodies ==
    { Garbage, SampleBody, [SampleBody EXCEPT !.comment = "original"],
      Body(TRUE, "deleted", "org/lib", FALSE, 7, "NONE", 0) }

\* Header values: none, the digest of any of the bodies under any of the
\* secrets, and a digest of another algorithm.
HeaderValues ==
    { NoSignature } \cup
    { SHA1HMAC(k, b) : k \in Secrets, b \in SignedBodies } \cup
    { [alg |-> "sha256", key |-> "projsecret", msg |-> SampleBody] }

SignatureCheck(signature, secretKey, body) ==
    [signature |-> signature, secretKey |-> secretKey, body |-> body]

InitSignature ==
    /\ opts = [AppID |-> 1, DefaultSharedSecret |-> "defsecret",
               EmittedEvents |-> << <<"*">> >>]
    /\ allowedAuthors = defaultAllowedAuthors
    /\ HookIdle
    /\ store = <<>>
    /\ handler = NewHandler("ReleaseSet", "org/app", 1)
    /\ CRIdle

\* validateSignature(signature, secretKey, payload): the call and whether it
\* returned nil are logged.
ValidateSignatureOf(signature, secretKey, body) ==
    /\ pc = "idle"
    /\ calls' = <<Call("validateSignature", SignatureCheck(signature, secretKey, body),
                        validateSignature(signature, secretKey, body))>>
    /\ UNCHANGED <<crVars, opts, allowedAuthors, store, pc, request, response,
                    proj, action, rev, payload, tok>>

SignatureNext ==
    \E signature \in HeaderValues, secretKey \in Secrets, body \in SignedBodies :
        ValidateSignatureOf(signature, secretKey, body)

SpecSignature == InitSignature /\ [][SignatureNext]_vars

\* A few deliveries: an enrichable comment, comments that are not enriched
\* (one of a project without a secret of its own, one of an unknown project)
\* and a ping.
BothDeliveries ==
    { Delivery("issue_comment", TRUE, SampleBody, SHA1HMAC("projsecret", SampleBody)),
      Delivery("issue_comment", TRUE,
               Body(TRUE, "deleted", "org/app", FALSE, 7, "NONE", 0),
               SHA1HMAC("projsecret", Body(TRUE, "deleted", "org/app", FALSE, 7, "NONE", 0))),
      Delivery("issue_comment", TRUE,
               Body(TRUE, "", "org/lib", FALSE, 7, "OWNER", 1),
               SHA1HMAC("defsecret", Body(TRUE, "", "org/lib", FALSE, 7, "OWNER", 1))),
      Delivery("issue_comment", TRUE,
               Body(TRUE, "created", "org/none", FALSE, 7, "OWNER", 1),
               SHA1HMAC("defsecret", Body(TRUE, "created", "org/none", FALSE, 7, "OWNER", 1))),
      Delivery("ping", TRUE, Garbage, NoSignature) }

\* main's handling of the -events flag and the BRIGADE_EVENTS variable,
\* followed by the webhook handler it configures.

\* strings.ToUpper on one ":"-free segment of the event names in use.
ToUpper(str) ==
    IF str = "issue_comment" THEN "ISSUE_COMMENT"
    ELSE IF str = "created" THEN "CREATED"
    ELSE IF str = "deleted" THEN "DELETED"
    ELSE IF str = "push" THEN "PUSH"
    ELSE str

\* events.Set: every comma-separated element of the value, upper-cased, is
\* appended (value is the list strings.Split(value, ",") returns, each element
\* in its ":"-split form).
eventsSet(value) ==
    [i \in 1..Len(value) |-> [j \in 1..Len(value[i]) |-> ToUpper(value[i][j])]]

defaultEmittedEvents == << <<"*">> >>

\* main, lines 254-260: the flag or the environment value if one is given
\* (<<>> stands for neither), else the default.
emittedEvents(value) ==
    IF Len(value) = 0 THEN defaultEmittedEvents ELSE eventsSet(value)

\* The values an operator passes with -events or BRIGADE_EVENTS.
FlagValues ==
    { <<>>,
      << <<"*">> >>,
      << <<"issue_comment">> >>,
      << <<"issue_comment", "created">> >>,
      << <<"push">>, <<"issue_comment">> >>,
      << <<"ISSUE_COMMENT">> >>,
      << <<"push">> >> }

InitMain ==
    /\ opts \in { [AppID |-> 1, DefaultSharedSecret |-> "defsecret",
                    EmittedEvents |-> emittedEvents(value)] : value \in FlagValues }
    /\ allowedAuthors = defaultAllowedAuthors
    /\ HookIdle
    /\ store = <<>>
    /\ handler = NewHandler("ReleaseSet", "org/app", 1)
    /\ CRIdle

MainNext ==
    \/ \E d \in BothDeliveries : Handle(d)
    \/ ParseWebHook
    \/ GetProject
    \/ ValidateSignature
    \/ InstallationToken
    \/ GetPRFromIssueComment
    \/ BuildEvent
    \/ BuildEventAction
    \/ Return

SpecMain == InitMain /\ [][MainNext]_vars

\* The gateway as main starts it: the webhook handler and the controller of
\* one mapping share the store and run side by side; a delivery and a
\* reconciliation interleave step by step.
BothSnapshots ==
    { Object("ReleaseSet", FALSE,
             Annotations("1", "true", "", <<"org", "app">>, "", "", "3"), ""),
      Object("ReleaseSet", TRUE,
             Annotations("", "", "", <<"org", "app">>, "b643d46", "", "3"), "completed") }

InitBoth ==
    /\ opts = [AppID |-> 1, DefaultSharedSecret |-> "defsecret",
               EmittedEvents |-> << <<"*">> >>]
    /\ allowedAuthors = defaultAllowedAuthors
    /\ HookIdle
    /\ store = <<>>
    /\ handler \in Handlers
    /\ CRIdle

BothNext ==
    \/ \E d \in BothDeliveries : Handle(d)
    \/ ParseWebHook
    \/ GetProject
    \/ ValidateSignature
    \/ InstallationToken
    \/ GetPRFromIssueComment
    \/ BuildEvent
    \/ BuildEventAction
    \/ Return
    \/ \E snapshot \in BothSnapshots : HandleState(snapshot)
    \/ CRGetProject
    \/ CRInstallationToken
    \/ CRBuild
    \/ CRReturn

SpecBoth == InitBoth /\ [][BothNext]_vars

\* One mapping whose resource is reconciled again and again: every return of
\* HandleState is followed by another call for a snapshot of the resource.
RepeatSnapshots ==
    { Object("ReleaseSet", del, Annotations(inst, "", "", <<"org", "app">>, "", "test", "3"), phase) :
        del \in BOOLEAN, inst \in {"", "1"}, phase \in {"", "completed"} }

InitRepeat ==
    /\ opts = [AppID |-> 1, DefaultSharedSecret |-> "defsecret",
               EmittedEvents |-> << <<"*">> >>]
    /\ allowedAuthors = defaultAllowedAuthors
    /\ HookIdle
    /\ store = <<>>
    /\ handler \in Handlers
    /\ CRIdle

RepeatNext ==
    \/ \E snapshot \in RepeatSnapshots : HandleState(snapshot)
    \/ \E snapshot \in RepeatSnapshots : Requeue(snapshot)
    \/ CRGetProject
    \/ CRInstallationToken
    \/ CRBuild
    \/ CRReturn

SpecRepeat == InitRepeat /\ [][RepeatNext]_vars

\* The pull-label handler: a request names a repository, a pull request and a
\* label; the answer says whether the pull request carries the label.
LabelNames == {"approved", "wip"}

LabelRequests ==
    { [owner |-> "org", repo |-> r, pull |-> n, label |-> l] :
        r \in {"app", "lib"}, n \in {"1", "0", "-1", "abc", ""}, l \in LabelNames }

\* What PullRequests.Get hands back: no pull request (with an error), or the
\* pull request and its labels.
NoPull == [Number |-> 0, Labels |-> {}, nil |-> TRUE]

Pulls(number) ==
    { [Number |-> number, Labels |-> ls, nil |-> FALSE] : ls \in SUBSET LabelNames }

\* c.JSON(code, gin.H{"status": fmt.Sprintf(text, label)}).
LabelStatus(code, text, label) == [code |-> code, status |-> <<text, label>>]

\* pullLabelHandler.Handle, lines 72-87: the client, the path parameters and
\* the conversion of the pull number. A conversion error is answered with 400
\* and the handler goes on with num = 0.
PullLabelHandle(r, clientOK) ==
    /\ pc = "idle"
    /\ request' = r
    /\ calls' = <<>>
    /\ IF ~clientOK
       THEN /\ response' = <<LabelStatus(400, "github client error", "")>>
            /\ pc' = "done"
       ELSE IF Atoi(r.pull).err
       THEN /\ response' = <<LabelStatus(400, "conversion error", "")>>
            /\ pc' = "PullRequests.Get"
       ELSE /\ response' = <<>>
            /\ pc' = "PullRequests.Get"
    /\ UNCHANGED <<crVars, opts, allowedAuthors, store, proj, action, rev, payload, tok>>

\* pullLabelHandler.Handle, lines 88-100: fetch the pull request and look for
\* the label. A fetch error is answered with 400 and the handler goes on to
\* range over pr.Labels with pr nil, which panics.
PullLabelGet ==
    /\ pc = "PullRequests.Get"
    /\ \E pr \in {NoPull} \cup Pulls(Atoi(request.pull).n) :
          IF pr.nil
          THEN /\ calls' = calls \o
                     << Call("PullRequests.Get",
                             <<request.owner, request.repo, Atoi(request.pull).n>>, FALSE),
                        Call("pr.Labels", pr, FALSE) >>
               /\ response' = Append(response,
                                     LabelStatus(400, "pull request fetch error", ""))
               /\ pc' = "panic"
          ELSE /\ calls' = calls \o
                     << Call("PullRequests.Get",
                             <<request.owner, request.repo, Atoi(request.pull).n>>, TRUE),
                        Call("pr.Labels", pr, TRUE) >>
               /\ response' = Append(response,
                     IF request.label \in pr.Labels
                     THEN LabelStatus(200, "pull request has label %q", request.label)
                     ELSE LabelStatus(404, "pull request has no label %q", request.label))
               /\ pc' = "done"
    /\ UNCHANGED <<crVars, opts, allowedAuthors, store, request, proj, action, rev, payload, tok>>

\* gin.Recovery: the panic of a handler is caught, and since the response
\* has been written already nothing more goes out.
Recovery ==
    /\ pc = "panic"
    /\ pc' = "done"
    /\ calls' = Append(calls, Call("Recovery", 500, TRUE))
    /\ UNCHANGED <<crVars, opts, allowedAuthors, store, request, response, proj, action,
                    rev, payload, tok>>

InitLabel ==
    /\ opts = [AppID |-> 1, DefaultSharedSecret |-> "defsecret",
               EmittedEvents |-> << <<"*">> >>]
    /\ allowedAuthors = defaultAllowedAuthors
    /\ HookIdle
    /\ store = <<>>
    /\ handler = NewHandler("ReleaseSet", "org/app", 1)
    /\ CRIdle

LabelNext ==
    \/ \E r \in LabelRequests, clientOK \in BOOLEAN : PullLabelHandle(r, clientOK)
    \/ PullLabelGet
    \/ Recovery
    \/ Return

SpecLabel == InitLabel /\ [][LabelNext]_vars

\* ----------------------------------------------------------------- claims

\* The remote calls and store writes of the webhook path.
SideEffects == {"installationToken", "PullRequests.Get", "CreateBuild"}

\* The delivery in hand is an issue_comment whose body parses.
Parsed == request.event = "issue_comment" /\ request.readable /\ request.body.json

\* The secret the delivery in hand must be signed with ("" if none resolves).
SecretFor(d) ==
    IF d.body.repo \notin DOMAIN Projects THEN ""
    ELSE IF Projects[d.body.repo].SharedSecret # ""
    THEN Projects[d.body.repo].SharedSecret
    ELSE opts.DefaultSharedSecret

\* The delivery in hand passes parsing, project lookup, secret resolution and
\* carries the keyed hash of its body under the resolved secret.
ValidlySigned ==
    /\ Parsed
    /\ request.body.repo \in DOMAIN Projects
    /\ SecretFor(request) # ""
    /\ request.signature = [alg |-> "sha1", key |-> SecretFor(request),
                            msg |-> request.body]

\* C1: every token exchange, pull-request fetch and CreateBuild of a delivery
\* comes after a validateSignature call of that delivery that succeeded, and
\* the delivery's signature header is the keyed hash of its body.
C1_SignatureBeforeSideEffects ==
    \A i \in 1..Len(calls) :
        calls[i].op \in SideEffects =>
            /\ \E j \in 1..(i - 1) : calls[j].op = "validateSignature" /\ calls[j].ok
            /\ ValidlySigned

C1_Witness ==
    /\ pc = "done"
    /\ Called(calls, "installationToken")
    /\ Called(calls, "PullRequests.Get")
    /\ Len(CallsOf(calls, "CreateBuild")) = 2

\* C2 (as claimed): once enrichment has answered 403 "Auth Failed", processing
\* stops: no trigger is attempted, CreateBuild is not called, and 403 is the
\* only response.
C2_AuthFailureStops ==
    (\E i \in 1..Len(response) : response[i] = Written(403, "Auth Failed")) =>
        /\ ~Called(calls, "build")
        /\ ~Called(calls, "CreateBuild")
        /\ response = <<Written(403, "Auth Failed")>>

\* The project exists and a secret resolves, but the signature header is not
\* the keyed hash of the body.
Tampered ==
    /\ Parsed
    /\ request.body.repo \in DOMAIN Projects
    /\ SecretFor(request) # ""
    /\ request.signature # [alg |-> "sha1", key |-> SecretFor(request),
                            msg |-> request.body]

\* C3: a delivery whose signature does not match makes no remote call and no
\* CreateBuild, leaves the store as it was, and is answered 403 only.
C3_TamperedRejected ==
    Tampered =>
        /\ \A i \in 1..Len(calls) : calls[i].op \notin SideEffects
        /\ ~Called(calls, "build")
        /\ pc = "done" => response = <<Written(403, "malformed signature")>>

C3_Witness ==
    /\ pc = "done"
    /\ Tampered
    /\ request.signature.alg = "sha1"
    /\ request.signature.key = SecretFor(request)
    /\ request.signature.msg.comment = "original"
    /\ response = <<Written(403, "malformed signature")>>

\* C4: a validly signed delivery, once handled, has made exactly the attempts
\* issue_comment and (if its action is non-empty) issue_comment:<action>, in
\* that order, and each attempt called CreateBuild iff the configured patterns
\* accept that event type, whatever happened to the other attempt.
Accepts(eventType) ==
    \E i \in 1..Len(opts.EmittedEvents) :
        \/ opts.EmittedEvents[i] = <<"*">>
        \/ opts.EmittedEvents[i] = <<eventType[1]>>
        \/ opts.EmittedEvents[i] = eventType

C4_TwoIndependentAttempts ==
    (pc = "done" /\ ValidlySigned) =>
        LET attempts == CallsOf(calls, "build")
            created == CallsOf(calls, "CreateBuild")
            wanted == IF request.body.action = ""
                      THEN << <<"issue_comment">> >>
                      ELSE << <<"issue_comment">>,
                              <<"issue_comment", request.body.action>> >>
        IN /\ Len(attempts) = Len(wanted)
           /\ \A i \in 1..Len(wanted) :
                 /\ attempts[i].arg = wanted[i]
                 /\ attempts[i].ok = Accepts(wanted[i])
                 /\ Accepts(wanted[i]) =
                      (\E j \in 1..Len(created) : created[j].arg.Type = wanted[i])
           /\ \A j \in 1..Len(created) :
                 \E i \in 1..Len(wanted) : created[j].arg.Type = wanted[i]
           /\ Len(created) <= Len(wanted)

\* One attempt accepted and the other dropped, in the same delivery.
C4_Witness ==
    /\ pc = "done"
    /\ ValidlySigned
    /\ request.body.action = "created"
    /\ Len(CallsOf(calls, "build")) = 2
    /\ ~CallsOf(calls, "build")[1].ok
    /\ CallsOf(calls, "build")[2].ok

\* The comment's author association is in the configured list (exact match).
AuthorListed == \E i \in 1..Len(allowedAuthors) : allowedAuthors[i] = request.body.assoc

\* C5: a validly signed delivery whose author is not listed, or whose issue has
\* no pull-request links, makes no token exchange and no pull-request fetch;
\* its triggers are still attempted, with the default ref and without a token,
\* and with action "created" under the wildcard both event types reach
\* CreateBuild and, unless the store refuses them, end the store.
C5_NoEnrichmentStillEmits ==
    (ValidlySigned /\ (~AuthorListed \/ ~request.body.prLinks)) =>
        /\ ~Called(calls, "installationToken")
        /\ ~Called(calls, "PullRequests.Get")
        /\ tok = NoToken
        /\ payload.Token = NoToken
        /\ pc = "done" =>
             LET created == CallsOf(calls, "CreateBuild")
                 stored == StoredBy(calls)
             IN /\ response = <<Written(200, "Complete")>>
                /\ rev.Ref = DefaultRef
                /\ Len(CallsOf(calls, "build")) =
                      IF request.body.action = "" THEN 1 ELSE 2
                /\ \A i \in 1..Len(created) :
                      /\ created[i].arg.Revision.Ref = DefaultRef
                      /\ created[i].arg.Payload.Token = NoToken
                /\ (opts.EmittedEvents = <<<<"*">>>> /\ request.body.action = "created") =>
                      /\ Len(created) = 2
                      /\ created[1].arg.Type = <<"issue_comment">>
                      /\ created[2].arg.Type = <<"issue_comment", "created">>
                /\ Len(stored) <= Len(store)
                /\ \A i \in 1..Len(stored) :
                      store[Len(store) - Len(stored) + i] = stored[i].arg

\* Scenario B: author NONE on a pull request, action created, wildcard filter.
C5_Witness ==
    /\ pc = "done"
    /\ ValidlySigned
    /\ request.body.assoc = "NONE"
    /\ allowedAuthors = defaultAllowedAuthors
    /\ request.body.prLinks
    /\ request.body.action = "created"
    /\ opts.EmittedEvents = <<<<"*">>>>
    /\ Len(store) = 2
    /\ store[1].Type = <<"issue_comment">>
    /\ store[2].Type = <<"issue_comment", "created">>

\* The conditions under which handleIssueComment enriches the event.
Enrichable ==
    /\ ValidlySigned
    /\ request.body.action \in {"created", "edited"}
    /\ request.body.prLinks
    /\ AuthorListed

\* C6 (as claimed): a handled delivery has attempted a token exchange if and
\* only if it is validly signed, created or edited, on a pull request, and by a
\* listed author.
C6_TokenIffEnrichable ==
    pc = "done" => (Called(calls, "installationToken") <=> Enrichable)

\* C6 (amended): ... if and only if, in addition, the configured app ID and the
\* delivery's installation ID are both nonzero; no token is held otherwise.
C6_TokenIffEnrichableWithIDs ==
    LET ids == opts.AppID # 0 /\ request.body.instID # 0
    IN /\ Called(calls, "installationToken") => (Enrichable /\ ids)
       /\ tok # NoToken => (Enrichable /\ ids)
       /\ pc = "done" => (Called(calls, "installationToken") <=> (Enrichable /\ ids))
       /\ Len(CallsOf(calls, "installationToken")) <= 1

C6_Witness ==
    /\ pc = "done"
    /\ Called(calls, "installationToken")
    /\ request.body.action = "edited"
    /\ tok # NoToken

\* The approved annotation of the snapshot in hand reads as true, and its
\* dry-run annotation as false.
Approved == s.Annotations.approvedStr \in {"", "true", "yes"}

DryRun == s.Annotations.dryRunStr \notin {"", "no", "false"}

\* Every trigger the invocation in hand handed to CreateBuild has type t.
EmitsOnly(t) ==
    \A i \in 1..Len(ccalls) :
        ccalls[i].op = "CreateBuild" => ccalls[i].arg.Type = t

\* HandleState returned nil having stored exactly one trigger, of type t, which
\* is the store's last build.
EmittedOne(t) ==
    /\ Len(CallsOf(ccalls, "CreateBuild")) = 1
    /\ Len(StoredBy(ccalls)) = 1
    /\ Len(store) >= 1
    /\ store[Len(store)] = StoredBy(ccalls)[1].arg
    /\ store[Len(store)].Type = t

C8_OtherwisePlans ==
    (s.Kind = "ReleaseSet" /\ ~s.DeletionTimestamp /\ (~Approved \/ DryRun)) =>
        EmitsOnly(<<"releaseset", "plan">>)

\* C9: a snapshot with a deletion timestamp yields <kind>:destroy whatever its
\* annotations, and a successful invocation records exactly that one trigger.
C9_DeletionDestroys ==
    s.DeletionTimestamp =>
        /\ EmitsOnly(<<"releaseset", "destroy">>)
        /\ (cpc = "done" /\ ret = "nil") => EmittedOne(<<"releaseset", "destroy">>)

\* Scenario C, with annotations that would otherwise ask for apply.
C9_Witness ==
    /\ cpc = "done"
    /\ ret = "nil"
    /\ s.DeletionTimestamp
    /\ s.Annotations.approvedStr = "yes"
    /\ s.Annotations.dryRunStr = "no"
    /\ store[Len(store)].Type = <<"releaseset", "destroy">>

\* C10 (as claimed): when HandleState returns nil after its trigger was stored,
\* the state object it hands back has status phase "completed".
C10_PhaseCompleted ==
    (cpc = "done" /\ ret = "nil") => ss.Status.Phase = "completed"

\* The event types a resource of kind ReleaseSet may trigger: the lower-cased
\* kind followed by one of the three actions.
QualifiedTypes == { <<"releaseset", a>> : a \in {"apply", "plan", "destroy"} }

C12_MissingApprovalPlans ==
    /\ (s.Kind = "ReleaseSet" /\ ~s.DeletionTimestamp /\ s.Annotations.approvedStr = "") =>
          EmitsOnly(<<"releaseset", "plan">>)
    /\ \A i \in 1..Len(ccalls) :
          (ccalls[i].op = "CreateBuild" /\ ccalls[i].arg.Type = <<"releaseset", "apply">>) =>
             s.Annotations.approvedStr # ""

\* The kind of a candidate and its action, empty for an unqualified candidate.
KindOf(c) == c[1]

ActionOf(c) == IF Len(c) = 2 THEN c[2] ELSE ""

C14_OnlyExactString ==
    opts.EmittedEvents = << <<"push", "opened">> >> =>
       \A i \in 1..Len(calls) :
          calls[i].op = "shouldEmit" =>
             (calls[i].ok <=> calls[i].arg = <<"push", "opened">>)

\* C15: when the lookup of the mapping's project fails, HandleState returns
\* that error, hands no trigger to the store and exchanges no installation
\* token; the lookup is the invocation's only call.
C15_MissingProjectStops ==
    (\E i \in 1..Len(ccalls) : ccalls[i].op = "GetProject" /\ ~ccalls[i].ok) =>
        /\ cpc = "done"
        /\ ret = "project not found"
        /\ ~Called(ccalls, "installationToken")
        /\ ~Called(ccalls, "CreateBuild")
        /\ Len(ccalls) = 1
        /\ store = <<>>

\* C15 witness: the project is missing for a snapshot and a handler that
\* would otherwise have exchanged a token (app ID and installation ID set).
C15_Witness ==
    /\ cpc = "done"
    /\ ccalls = <<Call("GetProject", "org/none", FALSE)>>
    /\ handler.appID = 1
    /\ s.Annotations.instIDStr = "1"
    /\ ~s.DeletionTimestamp
    /\ ret = "project not found"

\* The checks of an issue_comment delivery, in the order of the claim.
BodyBad == ~request.readable \/ ~request.body.json

ProjectBad == request.body.repo \notin DOMAIN Projects

SecretBad == SecretFor(request) = ""

SignatureBad ==
    request.signature # [alg |-> "sha1", key |-> SecretFor(request), msg |-> request.body]

\* C16: an issue_comment delivery is answered by its first failing check, in
\* the order body (400), project (400), secret (500), signature (403); a
\* delivery that fails a check attempts no trigger and makes no remote call;
\* 200 "Complete" is written only when all four pass, and then it is the last
\* response of the delivery.
C16_FirstFailingCheckDecides ==
    request.event = "issue_comment" =>
      /\ (pc = "done" /\ BodyBad) =>
            response = <<Written(400, "Malformed body")>>
      /\ (pc = "done" /\ ~BodyBad /\ ProjectBad) =>
            response = <<Written(400, "project not found")>>
      /\ (pc = "done" /\ ~BodyBad /\ ~ProjectBad /\ SecretBad) =>
            response = <<Written(500, "No secret is configured for this repo.")>>
      /\ (pc = "done" /\ ~BodyBad /\ ~ProjectBad /\ ~SecretBad /\ SignatureBad) =>
            response = <<Written(403, "malformed signature")>>
      /\ (BodyBad \/ ProjectBad \/ SecretBad \/ SignatureBad) =>
            \A i \in 1..Len(calls) : calls[i].op \notin SideEffects \cup {"build"}
      /\ (\E i \in 1..Len(response) : response[i] = Written(200, "Complete")) =>
            ~(BodyBad \/ ProjectBad \/ SecretBad \/ SignatureBad)
      /\ (pc = "done" /\ ~(BodyBad \/ ProjectBad \/ SecretBad \/ SignatureBad)) =>
            response[Len(response)] = Written(200, "Complete")

\* C16 witness: a delivery whose project has no secret and whose hook has no
\* default one is answered 500 although its signature header is a digest of
\* its body: the secret is resolved before the signature is compared.
C16_Witness ==
    /\ pc = "done"
    /\ request.event = "issue_comment"
    /\ request.body.repo = "org/lib"
    /\ opts.DefaultSharedSecret = ""
    /\ request.signature = SHA1HMAC("defsecret", request.body)
    /\ response = <<Written(500, "No secret is configured for this repo.")>>

\* C17: a ping delivery is answered 200 {"message": "OK"} at once, whatever
\* its body and signature header: no project is looked up, no signature is
\* checked, no remote call is made and no trigger is attempted.
C17_PingAcknowledged ==
    request.event = "ping" =>
        /\ pc = "done"
        /\ response = <<Message(200, "OK")>>
        /\ calls = <<>>
        /\ proj = NoProject
        /\ tok = NoToken

\* C17 witness: a ping that carries a well-formed comment body without a
\* signature header has been answered.
C17_Witness ==
    /\ pc = "done"
    /\ request.event = "ping"
    /\ request.body = SampleBody
    /\ request.signature = NoSignature
    /\ response = <<Message(200, "OK")>>

\* C18: a delivery of any kind other than ping and issue_comment, the empty
\* kind included, is answered 200 with message "Ignored" and nothing else:
\* no error response, no store or remote call, no trigger.
C18_OtherKindsIgnored ==
    (pc # "idle" /\ request.event \notin {"ping", "issue_comment"}) =>
        /\ pc = "done"
        /\ response = <<Message(200, "Ignored")>>
        /\ calls = <<>>
        /\ proj = NoProject
        /\ tok = NoToken

\* C18 witness: a delivery with an empty kind, a well-formed comment body and
\* a valid signature has been answered "Ignored".
C18_Witness ==
    /\ pc = "done"
    /\ request.event = ""
    /\ request.body = SampleBody
    /\ request.signature = SHA1HMAC("projsecret", SampleBody)
    /\ response = <<Message(200, "Ignored")>>

\* The pull requests the delivery in hand has fetched successfully.
Fetched == SelectSeq(calls, LAMBDA k : k.op = "PullRequests.Get" /\ k.ok)

\* The tokens the delivery in hand has been given.
Minted == SelectSeq(calls, LAMBDA k : k.op = "installationToken" /\ k.ok)

\* C19: once the pull request of a delivery has been fetched, every trigger
\* of the delivery has the fetched head SHA as revision commit, the ref
\* refs/pull/<number>/head, and a payload with the token and the expiry that
\* this delivery's token exchange returned; the triggers of the delivery do
\* not differ in revision or payload.
C19_EnrichedTriggersAgree ==
    Len(Fetched) > 0 =>
       LET pullRequest == Fetched[1].arg
           builds == CallsOf(calls, "CreateBuild")
       IN /\ Len(Minted) = 1
          /\ pullRequest.Number = request.body.number
          /\ \A i \in 1..Len(builds) :
                /\ builds[i].arg.Revision.Commit = pullRequest.SHA
                /\ builds[i].arg.Revision.Commit \in HeadSHAs
                /\ builds[i].arg.Revision.Ref =
                      [space |-> "pull", name |-> "head", num |-> request.body.number]
                /\ builds[i].arg.Payload.form = "json"
                /\ builds[i].arg.Payload.Token = Minted[1].arg.Token
                /\ builds[i].arg.Payload.Token # NoToken
                /\ builds[i].arg.Payload.TokenExpires =
                      [at |-> Minted[1].arg.Token.serial]
                /\ builds[i].arg.Payload.Commit = pullRequest.SHA
          /\ \A i, j \in 1..Len(builds) :
                /\ builds[i].arg.Revision = builds[j].arg.Revision
                /\ builds[i].arg.Payload = builds[j].arg.Payload

\* C19 witness: an enriched delivery has stored both of its triggers.
C19_Witness ==
    /\ pc = "done"
    /\ Len(Fetched) = 1
    /\ Len(StoredBy(calls)) = 2
    /\ StoredBy(calls)[1].arg.Type = <<"issue_comment">>
    /\ StoredBy(calls)[2].arg.Type = <<"issue_comment", "edited">>
    /\ store = <<StoredBy(calls)[1].arg, StoredBy(calls)[2].arg>>

\* refs/heads/master and the ref of the pull request of the delivery in hand.
MasterRef == [space |-> "heads", name |-> "master", num |-> 0]

PullHeadRef == [space |-> "pull", name |-> "head", num |-> request.body.number]

\* C20: every trigger built or recorded on the webhook path has a ref:
\* refs/heads/master when no pull request was fetched for the delivery, and
\* the pull request's ref, not the default, when one was.
C20_RefNeverEmpty ==
    /\ \A i \in 1..Len(calls) :
          calls[i].op = "CreateBuild" =>
             /\ calls[i].arg.Revision.Ref # [space |-> "", name |-> "", num |-> 0]
             /\ Len(Fetched) = 0 => calls[i].arg.Revision.Ref = MasterRef
             /\ Len(Fetched) > 0 => calls[i].arg.Revision.Ref = PullHeadRef
    /\ \A i \in 1..Len(store) :
          store[i].Provider = "github" =>
             \/ store[i].Revision.Ref = MasterRef
             \/ store[i].Revision.Ref.space = "pull" /\ store[i].Revision.Ref.num > 0
    /\ (pc \in {"buildAction", "done"} /\ Len(Fetched) > 0) => rev.Ref = PullHeadRef

\* C20 witness: a delivery whose enrichment failed at the token exchange has
\* stored both triggers with the default ref.
C20_Witness ==
    /\ pc = "done"
    /\ Called(calls, "installationToken")
    /\ Len(Fetched) = 0
    /\ Len(store) = 2
    /\ store[1].Provider = "github"
    /\ store[1].Revision.Ref = MasterRef
    /\ store[2].Revision.Ref = MasterRef

\* The tokens the invocation of HandleState in hand has been given.
CRMinted == SelectSeq(ccalls, LAMBDA k : k.op = "installationToken" /\ k.ok)

\* The invocation in hand has come as far as building its trigger.
AtTrigger == cpc = "build" \/ (cpc = "done" /\ Called(ccalls, "CreateBuild"))

\* The token part of the resource path, for an invocation whose ids ask for a
\* token exactly when wanted holds: an exchange is attempted only then; an
\* invocation that reaches its trigger has exchanged a token exactly then;
\* and the payload of every trigger carries the token of that exchange, or
\* no token when none was asked for.
TokenExactlyWhen(wanted) ==
    /\ Called(ccalls, "installationToken") => wanted
    /\ AtTrigger =>
          /\ Len(CRMinted) = (IF wanted THEN 1 ELSE 0)
          /\ cpayload.Token # NoToken <=> wanted
    /\ \A i \in 1..Len(ccalls) :
          ccalls[i].op = "CreateBuild" =>
             /\ wanted => /\ ccalls[i].arg.Payload.Token = CRMinted[1].arg.Token
                           /\ ccalls[i].arg.Payload.Token # NoToken
             /\ ~wanted => /\ ccalls[i].arg.Payload.Token = NoToken
                            /\ ccalls[i].arg.Payload.TokenExpires = NoExpiry

C22_TokenOfOwnExchange ==
    /\ Len(Minted) <= 1
    /\ Len(CRMinted) <= 1
    /\ \A i \in 1..Len(calls) :
          (calls[i].op = "CreateBuild" /\ calls[i].arg.Payload.Token # NoToken) =>
             /\ Len(Minted) = 1
             /\ calls[i].arg.Payload.Token = Minted[1].arg.Token
    /\ \A i \in 1..Len(ccalls) :
          (ccalls[i].op = "CreateBuild" /\ ccalls[i].arg.Payload.Token # NoToken) =>
             /\ Len(CRMinted) = 1
             /\ ccalls[i].arg.Payload.Token = CRMinted[1].arg.Token
    /\ payload.Token # NoToken => (Len(Minted) = 1 /\ payload.Token = Minted[1].arg.Token)
    /\ cpayload.Token # NoToken =>
          (Len(CRMinted) = 1 /\ cpayload.Token = CRMinted[1].arg.Token)

\* C22 witness: a delivery and a reconciliation handled side by side have
\* each exchanged a token, the two tokens differ, and each stored trigger
\* carries the token of its own handler.
C22_Witness ==
    /\ pc = "done"
    /\ cpc = "done"
    /\ Len(Minted) = 1
    /\ Len(CRMinted) = 1
    /\ Minted[1].arg.Token # CRMinted[1].arg.Token
    /\ Len(store) = 3
    /\ \A i \in 1..3 :
          store[i].Payload.Token =
             (IF store[i].Provider = "github" THEN Minted[1].arg.Token
              ELSE CRMinted[1].arg.Token)

\* The projects of the store by name, with the ids builds refer to.
ProjectIDs == [n \in {"org/app", "org/lib"} |->
                 IF n = "org/app" THEN "brigade-app" ELSE "brigade-lib"]

\* Every CreateBuild call of log is preceded in log by a successful
\* GetProject of the project called name, and its build has a non-empty
\* type and refers to that project.
TriggersWellFormed(log, name) ==
    \A i \in 1..Len(log) :
       log[i].op = "CreateBuild" =>
          /\ Len(log[i].arg.Type) >= 1
          /\ log[i].arg.Type[1] # ""
          /\ \E j \in 1..(i - 1) :
                log[j] = [op |-> "GetProject", arg |-> name, ok |-> TRUE]
          /\ name \in DOMAIN ProjectIDs
          /\ log[i].arg.ProjectID = ProjectIDs[name]
          /\ log[i].arg.ProjectID # ""

\* C23: on both paths every trigger handed to CreateBuild has a non-empty
\* event type and the id of the project that the same delivery or
\* reconciliation loaded from the store; so has every stored trigger.
C23_TypeAndProject ==
    /\ TriggersWellFormed(calls, request.body.repo)
    /\ TriggersWellFormed(ccalls, handler.brigadeProject)
    /\ \A i \in 1..Len(store) :
          /\ Len(store[i].Type) >= 1
          /\ store[i].Type[1] # ""
          /\ store[i].ProjectID \in {"brigade-app", "brigade-lib"}

\* C23 witness: the store holds a trigger of each path, one for each of the
\* two projects.
C23_Witness ==
    /\ \E i \in 1..Len(store) :
          store[i].Provider = "github" /\ store[i].ProjectID = "brigade-lib"
    /\ \E i \in 1..Len(store) :
          store[i].Provider = "brigade-cd" /\ store[i].ProjectID = "brigade-app"

\* C24: validateSignature returns nil exactly when the header value is the
\* keyed hash of the body under the secret; the empty value and a digest
\* made with another secret, another body or another algorithm are refused.
C24_AcceptsExactlyTheDigest ==
    \A i \in 1..Len(calls) :
       calls[i].op = "validateSignature" =>
          LET given == calls[i].arg
          IN /\ calls[i].ok <=>
                   given.signature =
                      [alg |-> "sha1", key |-> given.secretKey, msg |-> given.body]
             /\ given.signature = NoSignature => ~calls[i].ok

\* C24 witness: the digest of the same body under another secret has been
\* refused.
C24_Witness ==
    calls = <<Call("validateSignature",
                   SignatureCheck(SHA1HMAC("defsecret", SampleBody), "projsecret", SampleBody),
                   FALSE)>>

\* C25: once HandleState has filled its payload, the payload branch is the
\* branch annotation if there is one and the default branch if there is
\* neither a branch nor a commit annotation, and the payload commit is the
\* commit annotation (empty without one); the trigger's payload says the same.
C25_BranchAndCommit ==
    LET ann == s.Annotations
        asClaimed(pl) ==
           /\ ann.gitBranch # "" => pl.Branch = ann.gitBranch
           /\ (ann.gitBranch = "" /\ ann.gitCommitId = "") => pl.Branch = "master"
           /\ pl.Commit = ann.gitCommitId
    IN /\ (cpc # "idle" /\ ret # "panic") => asClaimed(cpayload)
       /\ \A i \in 1..Len(ccalls) :
             ccalls[i].op = "CreateBuild" => asClaimed(ccalls[i].arg.Payload)

\* C25 witness: a stored trigger whose snapshot has a branch annotation and no
\* commit annotation carries the annotated branch, not the default one.
C25_Witness ==
    /\ cpc = "done"
    /\ ret = "nil"
    /\ s.Annotations.gitBranch = "test"
    /\ s.Annotations.gitCommitId = ""
    /\ store[Len(store)].Payload.Branch = "test"
    /\ store[Len(store)].Payload.Commit = ""

\* C26 (as claimed): a delivery is answered once and only once: no handler
\* writes a second response, and a handler that has finished has written one.
C26_ExactlyOneResponse ==
    /\ Len(response) <= 1
    /\ pc = "done" => Len(response) = 1

\* C27 (as claimed): an issue_comment delivery for which a 4xx or 5xx
\* response has been written records no trigger in the store.
C27_ErrorMeansNoTrigger ==
    (request.event = "issue_comment" /\
     \E i \in 1..Len(response) : response[i].code >= 400) =>
        Len(StoredBy(calls)) = 0

\* The event names a -events or BRIGADE_EVENTS value lists.
Listed(value, pattern) == \E i \in 1..Len(value) : value[i] = pattern

\* The gateway was started with value as its -events / BRIGADE_EVENTS value.
StartedWith(value) == opts.EmittedEvents = emittedEvents(value)

\* C28 (as claimed): when the gateway was started with a value that lists
\* issue_comment, a delivery answered "Complete" has had its issue_comment
\* trigger accepted and handed to the store; with a value that lists
\* issue_comment:created, so has the issue_comment:created trigger of a
\* created comment.
C28_ConfiguredPatternEmits ==
    \A value \in FlagValues :
       (StartedWith(value) /\ pc = "done" /\
        \E i \in 1..Len(response) : response[i] = Written(200, "Complete")) =>
          /\ Listed(value, <<"issue_comment">>) =>
                \E i \in 1..Len(calls) :
                   /\ calls[i].op = "CreateBuild"
                   /\ calls[i].arg.Type = <<"issue_comment">>
          /\ (Listed(value, <<"issue_comment", "created">>) /\
               request.body.action = "created") =>
                \E i \in 1..Len(calls) :
                   /\ calls[i].op = "CreateBuild"
                   /\ calls[i].arg.Type = <<"issue_comment", "created">>

\* C29 (as claimed): a delivery answered 200 "Complete" has had every trigger
\* it handed to the store recorded: no CreateBuild of the delivery failed.
C29_CompleteMeansRecorded ==
    (\E i \in 1..Len(response) : response[i] = Written(200, "Complete")) =>
        \A i \in 1..Len(calls) : calls[i].op = "CreateBuild" => calls[i].ok

\* The values HandleState hands back to the runtime: nil or an error.
Returned ==
    {"nil", "failed converting", "project not found", "Failed to negotiate a token",
     "CreateBuild failed"}

\* C30 (as claimed): every invocation of HandleState ends by returning nil or
\* an error, also for a snapshot whose git-repo annotation is missing or has
\* no "/"; such a snapshot that is approved and not a dry run yields an
\* apply trigger or an error.
C30_AlwaysReturns ==
    cpc = "done" =>
       /\ ret \in Returned
       /\ (Len(s.Annotations.gitRepo) < 2 /\ ~s.DeletionTimestamp /\
            s.Annotations.approvedStr = "true" /\ s.Annotations.dryRunStr = "") =>
              \/ ret \in Returned \ {"nil"}
              \/ /\ ret = "nil"
                 /\ store[Len(store)].Type = <<"releaseset", "apply">>

\* C31 (as claimed): every trigger of the resource path has a ref that names
\* a branch: refs/heads/master when the snapshot has no branch annotation,
\* with or without a commit annotation.
C31_RefNamesBranch ==
    /\ \A i \in 1..Len(ccalls) :
          ccalls[i].op = "CreateBuild" =>
             /\ ccalls[i].arg.Revision.Ref.space = "heads"
             /\ ccalls[i].arg.Revision.Ref.name # ""
             /\ s.Annotations.gitBranch = "" =>
                   ccalls[i].arg.Revision.Ref = [space |-> "heads", name |-> "master", num |-> 0]
    /\ \A i \in 1..Len(store) :
          store[i].Provider = "brigade-cd" => store[i].Revision.Ref.name # ""

\* The signature check of the delivery in hand came out as ok.
SignatureChecked(ok) ==
    \E i \in 1..Len(calls) :
       calls[i] = Call("validateSignature", request.signature, ok)

\* C32: the delivery of a project with a secret of its own is validated
\* against that secret and never against the default one, so a delivery signed
\* with the default secret is answered 403 and attempts nothing; the default
\* secret validates only the deliveries of a project that has no secret.
C32_ProjectSecretFirst ==
    (Parsed /\ request.body.repo \in DOMAIN Projects /\ pc = "done") =>
       LET own == Projects[request.body.repo].SharedSecret
           def == opts.DefaultSharedSecret
       IN  /\ own # "" =>
                 /\ SignatureChecked(TRUE) <=> request.signature = SHA1HMAC(own, request.body)
                 /\ (def # own /\ request.signature = SHA1HMAC(def, request.body)) =>
                       /\ response = <<Written(403, "malformed signature")>>
                       /\ \A i \in 1..Len(calls) :
                             calls[i].op \notin SideEffects \cup {"build"}
           /\ (own = "" /\ def # "") =>
                 SignatureChecked(TRUE) <=> request.signature = SHA1HMAC(def, request.body)
           /\ (own = "" /\ def = "") =>
                 response = <<Written(500, "No secret is configured for this repo.")>>

\* C32 witness: a delivery for org/app, which has its own secret, signed with
\* the configured default secret, has been rejected with 403.
C32_Witness ==
    /\ pc = "done"
    /\ Parsed
    /\ request.body.repo = "org/app"
    /\ opts.DefaultSharedSecret = "defsecret"
    /\ request.signature = SHA1HMAC("defsecret", request.body)
    /\ SignatureChecked(FALSE)
    /\ response = <<Written(403, "malformed signature")>>

\* C33: within one delivery and within one reconciliation the token exchange
\* and the pull-request fetch are each called at most once, and a
\* reconciliation whose exchange failed returns an error having attempted no
\* trigger.
C33_NoRetry ==
    /\ Len(CallsOf(calls, "installationToken")) <= 1
    /\ Len(CallsOf(calls, "PullRequests.Get")) <= 1
    /\ Len(CallsOf(ccalls, "installationToken")) <= 1
    /\ (\E i \in 1..Len(ccalls) :
            ccalls[i].op = "installationToken" /\ ~ccalls[i].ok) =>
          /\ cpc = "done"
          /\ ret = "Failed to negotiate a token"
          /\ ccalls[Len(ccalls)].op = "installationToken"
          /\ ~Called(ccalls, "CreateBuild")

\* C33 witness: a reconciliation has returned the error of its one failed
\* exchange while a delivery that made one exchange and one failed fetch has
\* been answered.
C33_Witness ==
    /\ cpc = "done"
    /\ ret = "Failed to negotiate a token"
    /\ Len(CallsOf(ccalls, "installationToken")) = 1
    /\ pc = "done"
    /\ Len(CallsOf(calls, "installationToken")) = 1
    /\ \E i \in 1..Len(calls) : calls[i].op = "PullRequests.Get" /\ ~calls[i].ok

\* The reconciliation in hand got through every step: its calls all succeeded
\* and the last of them is CreateBuild.
WentThrough ==
    /\ ccalls # <<>>
    /\ \A i \in 1..Len(ccalls) : ccalls[i].ok
    /\ ccalls[Len(ccalls)].op = "CreateBuild"

\* C34: HandleState keeps no record of what it has handled: whatever the
\* store already holds and whatever the phase of the snapshot, a
\* reconciliation succeeds exactly when its CreateBuild call does, every
\* success appends exactly one trigger to the store, and nothing else changes
\* the store, so N successes leave N triggers.
C34_EverySuccessAppends ==
    /\ [](cpc = "done" => (ret = "nil" <=> WentThrough))
    /\ [][ /\ (ret # "nil" /\ ret' = "nil") =>
                /\ Len(store') = Len(store) + 1
                /\ store' = Append(store, ccalls'[Len(ccalls')].arg)
           /\ ~(ret # "nil" /\ ret' = "nil") => store' = store ]_vars

\* C34 witness: a snapshot whose phase is already completed has been handled
\* with success on a store that held its trigger already: the store now ends
\* with the same trigger twice.
C34_Witness ==
    /\ cpc = "done"
    /\ ret = "nil"
    /\ ss.Status.Phase = "completed"
    /\ Len(store) >= 2
    /\ store[Len(store)] = store[Len(store) - 1]

\* The errors HandleState returns.
CRErrors ==
    {"failed converting", "project not found", "Failed to negotiate a token",
     "CreateBuild failed"}

AloneResponse(d, log) ==
    IF d.event = "ping" THEN <<Message(200, "OK")>>
    ELSE IF d.event # "issue_comment" THEN <<Message(200, "Ignored")>>
    ELSE IF ~d.readable \/ ~d.body.json THEN <<Written(400, "Malformed body")>>
    ELSE IF d.body.repo \notin DOMAIN Projects
    THEN <<Written(400, "project not found")>>
    ELSE IF SecretFor(d) = ""
    THEN <<Written(500, "No secret is configured for this repo.")>>
    ELSE IF d.signature # SHA1HMAC(SecretFor(d), d.body)
    THEN <<Written(403, "malformed signature")>>
    ELSE (IF ~wantsPullRequest(allowedAuthors, d.body) THEN <<>>
          ELSE IF opts.AppID = 0 \/ d.body.instID = 0
                  \/ \E i \in 1..Len(log) : log[i].op = "installationToken" /\ ~log[i].ok
          THEN <<Written(403, "Auth Failed")>>
          ELSE IF \E i \in 1..Len(log) : log[i].op = "PullRequests.Get" /\ ~log[i].ok
          THEN <<Written(500,
                   "failed to fetch pull request for corresponding issue comment")>>
          ELSE <<>>)
         \o <<Written(200, "Complete")>>

\* What HandleState returns for snapshot when it runs on its own, given the
\* answers log holds of the remote calls made for it.
AloneRet(snapshot, log) ==
    LET ann == snapshot.Annotations
    IN IF Len(ann.gitRepo) < 2 THEN "panic"
       ELSE IF ann.instIDStr # "" /\ Atoi(ann.instIDStr).err THEN "failed converting"
       ELSE IF handler.brigadeProject \notin DOMAIN Projects THEN "project not found"
       ELSE IF \E i \in 1..Len(log) : log[i].op = "installationToken" /\ ~log[i].ok
       THEN "Failed to negotiate a token"
       ELSE IF \E i \in 1..Len(log) : log[i].op = "CreateBuild" /\ ~log[i].ok
       THEN "CreateBuild failed"
       ELSE "nil"

\* The locals of the delivery in hand and of the reconciliation in hand.
HookUnit == <<pc, request, response, proj, action, rev, payload, tok, calls>>
CRUnit == <<cpc, ss, s, o, cpayload, cproj, ret, ccalls>>

\* The step appends to the store the trigger whose successful CreateBuild
\* call it adds as the last entry of log (next is log after the step).
AppendsOwn(log, next) ==
    /\ next # log
    /\ next[Len(next)].op = "CreateBuild"
    /\ next[Len(next)].ok
    /\ store' = Append(store, next[Len(next)].arg)

\* C36: while a delivery and a reconciliation are handled side by side, the
\* response of the delivery and the return value of the reconciliation are
\* what they are for the same unit on its own; no step of one unit changes a
\* local of the other or a field of the hook or the handler; and every change
\* of the store is the append of the one trigger that the stepping unit has
\* just had stored, so the store is the union of the units' triggers.
C36_UnitsDoNotInterfere ==
    /\ [](pc = "done" => response = AloneResponse(request, calls))
    /\ [](cpc = "done" => ret = AloneRet(s, ccalls))
    /\ [][ /\ HookUnit' # HookUnit => CRUnit' = CRUnit
           /\ <<opts, allowedAuthors, handler>>' = <<opts, allowedAuthors, handler>>
           /\ \/ store' = store
              \/ CRUnit' = CRUnit /\ AppendsOwn(calls, calls')
              \/ HookUnit' = HookUnit /\ AppendsOwn(ccalls, ccalls') ]_vars

\* C36 witness: a delivery and a reconciliation have both finished, the
\* trigger of the reconciliation was stored between the two triggers of the
\* delivery, and each unit has the result it has on its own.
C36_Witness ==
    /\ pc = "done"
    /\ cpc = "done"
    /\ response = <<Written(200, "Complete")>>
    /\ ret = "nil"
    /\ Len(store) = 3
    /\ store[1].Provider = "github"
    /\ store[2].Provider = "brigade-cd"
    /\ store[3].Provider = "github"
    /\ <<store[1], store[3]>> = <<StoredBy(calls)[1].arg, StoredBy(calls)[2].arg>>
    /\ store[2] = StoredBy(ccalls)[1].arg

\* C37 (as claimed): every request to the pull-label handler is answered
\* exactly once; after a conversion error nothing is fetched, after a fetch
\* error the absent pull request is not read, and a fetched pull request is
\* answered 200 or 404 by its labels.
C37_OneLabelResponse ==
    /\ pc # "panic"
    /\ pc = "done" =>
          /\ Len(response) = 1
          /\ Atoi(request.pull).err => ~Called(calls, "PullRequests.Get")
          /\ \A i \in 1..Len(calls) :
                /\ calls[i].op = "pr.Labels" => ~calls[i].arg.nil
                /\ (calls[i].op = "pr.Labels" /\ request.label \in calls[i].arg.Labels) =>
                      response[1].code = 200
                /\ (calls[i].op = "pr.Labels" /\ request.label \notin calls[i].arg.Labels) =>
                      response[1].code = 404
                /\ (calls[i].op = "PullRequests.Get" /\ ~calls[i].ok) =>
                      response[1].code = 400

====
